---- MODULE Spec2Model ----
(***************************************************************************)
(* Model of the i18n component (src/components/i18n/__init__.py): the      *)
(* translation table compiler run by to_code, and the runtime engine whose *)
(* C++ text _gen_translations_cpp emits (tr, set_locale, get_locale,       *)
(* i18n_init_buffer, i18n_cleanup_buffer).                                 *)
(*                                                                         *)
(* Text is a sequence of one-character strings, so that escaping, symbol   *)
(* naming, sorting, strcmp and strncpy are computed character by           *)
(* character.  A C pointer to text is a sequence of length 0 (nullptr) or  *)
(* 1 (the text pointed to).  Text handed to set_locale and tr is owned by  *)
(* the caller and outlives the engine's use of it, as translations.h asks  *)
(* ("Do not store returned pointer").                                      *)
(***************************************************************************)
EXTENDS Integers, Sequences, FiniteSets

VARIABLES
    config,             \* the validated configuration to_code receives
    pc,                 \* to_code's position
    src_i,              \* index of the next source of the loading loop
    locales_map,        \* to_code's locales_map: [order, kv]
    all_keys_set,       \* to_code's all_keys_set
    all_keys,           \* to_code's all_keys
    gen,                \* the generated texts hdr and cpp, each a pointer
    files,              \* translations.h / translations.cpp on disk
    error,              \* the cv.Invalid raised, if any
    current_loc,        \* C++ static current_loc
    translation_buffer, \* C++ static translation_buffer: 0 is nullptr
    heap,               \* every block the allocator ever handed out
    last,               \* the last runtime call: its arguments and result,
                        \* the buffer and locale it found, and whether the
                        \* call before it was the same operation
    lastSetLocale       \* argument of the most recent set_locale call

vars == <<config, pc, src_i, locales_map, all_keys_set, all_keys, gen, files,
          error, current_loc, translation_buffer, heap, last, lastSetLocale>>

compileVars == <<config, pc, src_i, locales_map, all_keys_set, all_keys, gen,
                 files, error>>

runtimeVars == <<current_loc, translation_buffer, heap, last, lastSetLocale>>

----------------------------------------------------------------------------
(* Bounds of the model. *)

\* Longest list of sources a configuration holds.
MaxSources == 2

\* Blocks the allocator hands out before every further request fails.
MaxAllocs == 2

\* How far above the schema's minimum the modelled buffer sizes reach.
BufferSizeSpread == 1

\* cv.int_range(min=64, ...) of CONF_BUFFER_SIZE.
BufferSizeMin == 64

----------------------------------------------------------------------------
(* Characters and text. *)

Digits == <<"0", "1", "2", "3", "4", "5", "6", "7", "8", "9">>

UpperCase == <<"A", "B", "C", "D", "E", "F", "G", "H", "I", "J", "K", "L", "M",
               "N", "O", "P", "Q", "R", "S", "T", "U", "V", "W", "X", "Y", "Z">>

LowerCase == <<"a", "b", "c", "d", "e", "f", "g", "h", "i", "j", "k", "l", "m",
               "n", "o", "p", "q", "r", "s", "t", "u", "v", "w", "x", "y", "z">>

\* The characters of the model in code point order.
CodePointOrder ==
    <<"\n", " ", "\"", ",", ".">> \o Digits \o UpperCase \o <<"\\", "_">> \o LowerCase

Ord(c) == CHOOSE i \in 1..Len(CodePointOrder) : CodePointOrder[i] = c

Range(s) == {s[i] : i \in 1..Len(s)}

IsDigit(c) == c \in Range(Digits)

IsAlnum(c) == c \in Range(Digits) \cup Range(UpperCase) \cup Range(LowerCase)

\* str.upper() on one character.
UpperChar(c) ==
    IF c \in Range(LowerCase)
    THEN UpperCase[CHOOSE i \in 1..Len(LowerCase) : LowerCase[i] = c]
    ELSE c

\* str.upper()
Upper(s) == [i \in 1..Len(s) |-> UpperChar(s[i])]

\* n copies of character c.
Repeat(c, n) == [i \in 1..n |-> c]

Take(s, n) == SubSeq(s, 1, IF n < Len(s) THEN n ELSE Len(s))

\* Python's str < str: by code point, a proper prefix first.
StrLess(a, b) ==
    \/ /\ Len(a) < Len(b)
       /\ \A i \in 1..Len(a) : a[i] = b[i]
    \/ \E i \in 1..Len(a) :
          /\ i <= Len(b)
          /\ \A j \in 1..(i - 1) : a[j] = b[j]
          /\ Ord(a[i]) < Ord(b[i])

RECURSIVE sorted(_)
\* sorted(S) of a set of texts.
sorted(S) ==
    IF S = {} THEN <<>>
    ELSE LET m == CHOOSE k \in S : \A o \in S \ {k} : StrLess(k, o)
         IN  <<m>> \o sorted(S \ {m})

RECURSIVE JoinWith(_, _)
\* sep.join(parts)
JoinWith(sep, parts) ==
    IF parts = <<>> THEN <<>>
    ELSE IF Len(parts) = 1 THEN parts[1]
    ELSE parts[1] \o sep \o JoinWith(sep, Tail(parts))

\* C pointers to text: nullptr, or the text pointed to.
NULL == <<>>

Ptr(s) == <<s>>

Deref(p) == p[1]

\* Python dict update d[k] = v.
Put(d, k, v) == [x \in DOMAIN d \cup {k} |-> IF x = k THEN v ELSE d[x]]

EmptyDict == [x \in {} |-> <<>>]

----------------------------------------------------------------------------
(* YAML locale utilities.  A parsed document is a tree: a "str" leaf holds *)
(* text, an "int" leaf a number, a "dict" node its items in document order.*)

StrLeaf(v) == [kind |-> "str", val |-> v, num |-> 0, items |-> <<>>]

IntLeaf(n) == [kind |-> "int", val |-> <<>>, num |-> n, items |-> <<>>]

DictNode(items) == [kind |-> "dict", val |-> <<>>, num |-> 0, items |-> items]

RECURSIVE Decimal(_)
\* str(n) of a natural number.
Decimal(n) ==
    IF n < 10 THEN <<Digits[n + 1]>>
    ELSE Decimal(n \div 10) \o <<Digits[(n % 10) + 1]>>

\* str(obj) of a leaf.
PyStr(obj) == IF obj.kind = "int" THEN Decimal(obj.num) ELSE obj.val

RECURSIVE flatten_dict(_, _, _)
RECURSIVE flatten_items(_, _, _)
\* _flatten_dict(prefix, obj, out): returns out as the call leaves it.
flatten_dict(prefix, obj, out) ==
    IF obj.kind = "dict"
    THEN flatten_items(prefix, obj.items, out)
    ELSE Put(out, prefix, PyStr(obj))

\* The loop "for k, v in obj.items()" of _flatten_dict.
flatten_items(prefix, items, out) ==
    IF items = <<>> THEN out
    ELSE LET k == items[1][1]
             v == items[1][2]
             key == IF prefix # <<>> THEN prefix \o <<".">> \o k ELSE k
         IN  flatten_items(prefix, Tail(items), flatten_dict(key, v, out))

RECURSIVE Replace(_, _, _)
\* s.replace(c, r) for a one-character c.
Replace(s, c, r) ==
    IF s = <<>> THEN <<>>
    ELSE (IF s[1] = c THEN r ELSE <<s[1]>>) \o Replace(Tail(s), c, r)

\* _cpp_escape_literal
cpp_escape_literal(s) ==
    Replace(Replace(s, "\\", <<"\\", "\\">>), "\"", <<"\\", "\"">>)

RECURSIVE CollapseRuns(_, _)
\* re.sub(r"[^A-Za-z0-9]+", "_", key): acc is the output so far, and ends
\* in "_" exactly when the run being read was already replaced.
CollapseRuns(key, acc) ==
    IF key = <<>> THEN acc
    ELSE IF IsAlnum(key[1]) THEN CollapseRuns(Tail(key), Append(acc, key[1]))
    ELSE IF acc # <<>> /\ acc[Len(acc)] = "_" THEN CollapseRuns(Tail(key), acc)
    ELSE CollapseRuns(Tail(key), Append(acc, "_"))

RECURSIVE StripLeft(_)
StripLeft(s) == IF s # <<>> /\ s[1] = "_" THEN StripLeft(Tail(s)) ELSE s

RECURSIVE StripRight(_)
StripRight(s) ==
    IF s # <<>> /\ s[Len(s)] = "_" THEN StripRight(SubSeq(s, 1, Len(s) - 1)) ELSE s

\* str.strip("_")
Strip(s) == StripRight(StripLeft(s))

\* _sym_from_key
sym_from_key(key) ==
    LET s0 == Strip(CollapseRuns(key, <<>>))
        s1 == IF s0 = <<>> THEN <<"K", "E", "Y">> ELSE s0
        s2 == Upper(s1)
    IN  IF IsDigit(s2[1]) THEN <<"_">> \o s2 ELSE s2

----------------------------------------------------------------------------
(* Generation of translations.h and translations.cpp.  A generated file is *)
(* a record of the parts of its text that depend on the input.             *)

T_STR == <<"S", "T", "R", "_">>

T_TABLE == <<"T", "A", "B", "L", "E", "_">>

\* _gen_translations_h
gen_translations_h(keys, use_psram, buffer_size) ==
    [I18N_BUFFER_SIZE |-> buffer_size,
     I18N_USE_PSRAM   |-> use_psram,
     I18N_KEY_COUNT   |-> Len(keys)]

\* MissingKeys stopping at the first missing key.
MissingKeys_FirstOnly(kv, keys) ==
    LET m == SelectSeq(keys, LAMBDA k : k \notin DOMAIN kv)
    IN  IF m = <<>> THEN <<>> ELSE <<m[1]>>

\* missing = [k for k in all_keys if k not in kv]
MissingKeys(kv, keys) == SelectSeq(keys, LAMBDA k : k \notin DOMAIN kv)

\* The validation loop of _gen_translations_cpp: one line
\* "<loc>: <k1>, <k2>" per locale with missing keys, in dict order.
missing_report(lmap, keys) ==
    LET bad == SelectSeq(lmap.order, LAMBDA loc : MissingKeys(lmap.kv[loc], keys) # <<>>)
    IN  [i \in 1..Len(bad) |->
            bad[i] \o <<":", " ">>
                   \o JoinWith(<<",", " ">>, MissingKeys(lmap.kv[bad[i]], keys))]

\* sym = f"STR_{upper}_{_sym_from_key(k)}"
StrSymbol(loc, k) == T_STR \o Upper(loc) \o <<"_">> \o sym_from_key(k)

\* The table block of one locale: its string definitions and its table.
LocaleBlock(lmap, keys, loc) ==
    [loc         |-> loc,
     strings     |-> [i \in 1..Len(keys) |->
                        [sym |-> StrSymbol(loc, keys[i]),
                         lit |-> cpp_escape_literal(lmap.kv[loc][keys[i]])]],
     table       |-> T_TABLE \o Upper(loc),
     table_elems |-> [i \in 1..Len(keys) |-> StrSymbol(loc, keys[i])]]

\* The text _gen_translations_cpp returns once validation has passed.
translations_cpp(lmap, default_locale, keys, use_psram, buffer_size) ==
    LET locs == sorted(Range(lmap.order))
    IN  [TRANSLATIONS_DEFAULT_LOCALE |-> default_locale,
         use_psram      |-> use_psram,
         keys_literals  |-> [i \in 1..Len(keys) |-> cpp_escape_literal(keys[i])],
         blocks         |-> [i \in 1..Len(locs) |-> LocaleBlock(lmap, keys, locs[i])],
         select_cases   |-> [i \in 1..Len(locs) |->
                               [lit |-> locs[i], table |-> T_TABLE \o Upper(locs[i])]],
         select_default |-> T_TABLE \o Upper(default_locale)]

\* _gen_translations_cpp: raises cv.Invalid with the report, or returns
\* the text.
gen_translations_cpp(lmap, default_locale, keys, use_psram, buffer_size) ==
    LET report == missing_report(lmap, keys)
    IN  IF report # <<>>
        THEN [raised |-> TRUE, report |-> report, cpp |-> NULL]
        ELSE [raised |-> FALSE, report |-> <<>>,
              cpp |-> <<translations_cpp(lmap, default_locale, keys,
                                         use_psram, buffer_size)>>]

----------------------------------------------------------------------------
(* What the C++ compiler makes of the generated translations.cpp.          *)

RECURSIVE LiteralOk(_)
\* Whether "<lit>" is one well-formed string literal: no raw line break, no
\* unescaped quote, every backslash starting an escape.
LiteralOk(lit) ==
    IF lit = <<>> THEN TRUE
    ELSE IF lit[1] = "\\"
         THEN /\ Len(lit) >= 2
              /\ lit[2] \in {"\\", "\"", "n"}
              /\ LiteralOk(SubSeq(lit, 3, Len(lit)))
    ELSE IF lit[1] \in {"\"", "\n"} THEN FALSE
    ELSE LiteralOk(Tail(lit))

RECURSIVE LiteralValue(_)
\* The text a well-formed literal denotes.
LiteralValue(lit) ==
    IF lit = <<>> THEN <<>>
    ELSE IF lit[1] = "\\"
         THEN <<IF lit[2] = "n" THEN "\n" ELSE lit[2]>>
              \o LiteralValue(SubSeq(lit, 3, Len(lit)))
    ELSE <<lit[1]>> \o LiteralValue(Tail(lit))

\* A C++ identifier.
IsIdentifier(s) ==
    /\ s # <<>>
    /\ ~IsDigit(s[1])
    /\ \A i \in 1..Len(s) : IsAlnum(s[i]) \/ s[i] = "_"

\* Every "static const char SYM[] PROGMEM = ..." of the file, in order.
StringDefs(cpp) ==
    LET RECURSIVE Cat(_)
        Cat(bs) == IF bs = <<>> THEN <<>> ELSE bs[1].strings \o Cat(Tail(bs))
    IN  Cat(cpp.blocks)

\* The definitions of symbol sym: positions in StringDefs.
DefsOf(cpp, sym) == {i \in 1..Len(StringDefs(cpp)) : StringDefs(cpp)[i].sym = sym}

\* The blocks defining the table named name.
TablesNamed(cpp, name) == {i \in 1..Len(cpp.blocks) : cpp.blocks[i].table = name}

\* The translation unit compiles: every name is an identifier defined once,
\* every literal is well formed, every name used is defined.
Compiles(cpp) ==
    /\ LiteralOk(cpp.TRANSLATIONS_DEFAULT_LOCALE)
    /\ \A i \in 1..Len(cpp.keys_literals) : LiteralOk(cpp.keys_literals[i])
    /\ \A i \in 1..Len(StringDefs(cpp)) :
          /\ IsIdentifier(StringDefs(cpp)[i].sym)
          /\ LiteralOk(StringDefs(cpp)[i].lit)
          /\ Cardinality(DefsOf(cpp, StringDefs(cpp)[i].sym)) = 1
    /\ \A i \in 1..Len(cpp.blocks) :
          /\ IsIdentifier(cpp.blocks[i].table)
          /\ Cardinality(TablesNamed(cpp, cpp.blocks[i].table)) = 1
          /\ \A j \in 1..Len(cpp.blocks[i].table_elems) :
                DefsOf(cpp, cpp.blocks[i].table_elems[j]) # {}
    /\ \A i \in 1..Len(cpp.select_cases) :
          /\ LiteralOk(cpp.select_cases[i].lit)
          /\ TablesNamed(cpp, cpp.select_cases[i].table) # {}
    /\ TablesNamed(cpp, cpp.select_default) # {}

\* The text symbol sym holds in a unit that compiles.
SymbolValue(cpp, sym) ==
    LiteralValue(StringDefs(cpp)[CHOOSE i \in DefsOf(cpp, sym) : TRUE].lit)

\* The array TABLE_<LOC> of a unit that compiles: one symbol per entry.
TableNamed(cpp, name) ==
    cpp.blocks[CHOOSE i \in TablesNamed(cpp, name) : TRUE].table_elems

\* The array I18N_KEYS.
I18N_KEYS(cpp) ==
    [i \in 1..Len(cpp.keys_literals) |-> LiteralValue(cpp.keys_literals[i])]

\* The array TRANSLATIONS_DEFAULT_LOCALE.
TRANSLATIONS_DEFAULT_LOCALE(cpp) == LiteralValue(cpp.TRANSLATIONS_DEFAULT_LOCALE)

----------------------------------------------------------------------------
(* The runtime engine of translations.cpp, over a unit cpp that compiles.  *)

\* strcmp(a, b) == 0
StrEq(a, b) == a = b

\* select_table falling back to the first locale's table.
select_table_FirstOnMiss(cpp, loc) ==
    LET hits == {i \in 1..Len(cpp.select_cases) :
                    StrEq(loc, LiteralValue(cpp.select_cases[i].lit))}
    IN  IF hits = {} THEN cpp.select_cases[1].table
        ELSE cpp.select_cases[CHOOSE i \in hits : \A j \in hits : i <= j].table

\* select_table, returning the table's name: the first case whose literal
\* equals loc, else the default locale's table.
select_table(cpp, loc) ==
    LET hits == {i \in 1..Len(cpp.select_cases) :
                    StrEq(loc, LiteralValue(cpp.select_cases[i].lit))}
    IN  IF hits = {} THEN cpp.select_default
        ELSE cpp.select_cases[CHOOSE i \in hits : \A j \in hits : i <= j].table

\* key_index_of answering index 0 for a key it does not find.
key_index_of_ZeroOnMiss(cpp, key) ==
    LET hits == {i \in 1..Len(I18N_KEYS(cpp)) : StrEq(I18N_KEYS(cpp)[i], key)}
    IN  IF hits = {} THEN 0
        ELSE (CHOOSE i \in hits : \A j \in hits : i <= j) - 1

\* key_index_of: the 0-based index of the first equal key, else -1.
key_index_of(cpp, key) ==
    LET hits == {i \in 1..Len(I18N_KEYS(cpp)) : StrEq(I18N_KEYS(cpp)[i], key)}
    IN  IF hits = {} THEN -1
        ELSE (CHOOSE i \in hits : \A j \in hits : i <= j) - 1

\* get_ptr_from_progmem(table, idx): the text the entry points to.
get_ptr_from_progmem(cpp, table, idx) == SymbolValue(cpp, table[idx + 1])

\* strncpy copying n characters instead of n - 1.
strncpy_OffByOne(src, n) == Take(src, n)

\* strncpy(buf, src, n - 1); buf[n - 1] = '\0': the text buf then holds.
strncpy(src, n) == Take(src, n - 1)

\* i18n_get_buf_internal(loc, key, buf, n) for a non-null buf and n > 0:
\* the text buf holds on return.  loc and key are pointers.
i18n_get_buf_internal(cpp, loc, key, n) ==
    IF key = NULL THEN <<>>
    ELSE LET idx == key_index_of(cpp, Deref(key))
         IN  IF idx < 0 THEN strncpy(Deref(key), n)
             ELSE LET l == IF loc # NULL /\ Deref(loc) # <<>>
                           THEN Deref(loc)
                           ELSE TRANSLATIONS_DEFAULT_LOCALE(cpp)
                      table == TableNamed(cpp, select_table(cpp, l))
                  IN  strncpy(get_ptr_from_progmem(cpp, table, idx), n)

\* The regions i18n_init_buffer asks, in order.
R_PREFERRED == "I18N_MALLOC"

R_MALLOC == "malloc"

\* The answers the allocator may give to the requests of one
\* i18n_init_buffer call, <<first, fallback>>: none is made with a buffer
\* in place, the fallback is asked only under use_psram after a failure.
AllocOutcomes(tb, hp, use_psram) ==
    IF tb # 0 \/ Len(hp) >= MaxAllocs THEN {<<FALSE, FALSE>>}
    ELSE {<<TRUE, FALSE>>, <<FALSE, FALSE>>}
         \cup (IF use_psram THEN {<<FALSE, TRUE>>} ELSE {})

\* A block malloc just returned: never freed, contents indeterminate.
NewBlock == [frees |-> 0, data |-> NULL]

\* i18n_init_buffer without the retry in regular RAM.
i18n_init_buffer_NoFallback(tb, hp, use_psram, ok1, ok2) ==
    IF tb # 0 THEN [tb |-> tb, heap |-> hp, attempts |-> <<>>]
    ELSE IF ok1
    THEN [tb |-> Len(hp) + 1, heap |-> Append(hp, NewBlock),
          attempts |-> <<[region |-> R_PREFERRED, ok |-> TRUE]>>]
    ELSE [tb |-> 0, heap |-> hp,
          attempts |-> <<[region |-> R_PREFERRED, ok |-> FALSE]>>]

\* i18n_init_buffer with the allocator answering ok1 to the first request
\* and ok2 to the fallback request: the buffer, the heap and the requests
\* made (region, outcome) on return.
i18n_init_buffer(tb, hp, use_psram, ok1, ok2) ==
    IF tb # 0 THEN [tb |-> tb, heap |-> hp, attempts |-> <<>>]
    ELSE IF ok1
    THEN [tb |-> Len(hp) + 1, heap |-> Append(hp, NewBlock),
          attempts |-> <<[region |-> R_PREFERRED, ok |-> TRUE]>>]
    ELSE IF use_psram
    THEN IF ok2
         THEN [tb |-> Len(hp) + 1, heap |-> Append(hp, NewBlock),
               attempts |-> <<[region |-> R_PREFERRED, ok |-> FALSE],
                              [region |-> R_MALLOC, ok |-> TRUE]>>]
         ELSE [tb |-> 0, heap |-> hp,
               attempts |-> <<[region |-> R_PREFERRED, ok |-> FALSE],
                              [region |-> R_MALLOC, ok |-> FALSE]>>]
    ELSE [tb |-> 0, heap |-> hp,
          attempts |-> <<[region |-> R_PREFERRED, ok |-> FALSE]>>]

\* i18n_cleanup_buffer leaving the pointer in place after the free.
i18n_cleanup_buffer_KeepsPointer(tb, hp) ==
    IF tb # 0
    THEN [tb |-> tb,
          heap |-> [hp EXCEPT ![tb] = [frees |-> @.frees + 1, data |-> NULL]]]
    ELSE [tb |-> tb, heap |-> hp]

\* i18n_cleanup_buffer forgetting the buffer without I18N_FREE.
i18n_cleanup_buffer_NoFree(tb, hp) == [tb |-> 0, heap |-> hp]

\* i18n_cleanup_buffer: the buffer and the heap on return.  A block's frees
\* counts the calls of I18N_FREE on it.
i18n_cleanup_buffer(tb, hp) ==
    IF tb # 0
    THEN [tb |-> 0,
          heap |-> [hp EXCEPT ![tb] = [frees |-> @.frees + 1, data |-> NULL]]]
    ELSE [tb |-> tb, heap |-> hp]

\* i18n_set_locale_internal storing nothing.
i18n_set_locale_internal_Ignored(cur, loc) == cur

\* i18n_set_locale_internal: current_loc on return.
i18n_set_locale_internal(cur, loc) == IF loc # NULL THEN loc ELSE cur

----------------------------------------------------------------------------
(* The inputs of the model: source documents and configurations.           *)

L_en == <<"e", "n">>

L_fr == <<"f", "r">>

L_de == <<"d", "e">>

L_es == <<"e", "s">>

L_nl == <<"n", "l">>

L_it == <<"i", "t">>

L_xx == <<"x", "x">>

K_hi == <<"h", "i">>

K_msg == <<"m", "s", "g">>

K_big == <<"b", "i", "g">>

K_q == <<"q">>

K_msg_big == K_msg \o <<".">> \o K_big

K_msg_q == K_msg \o <<".">> \o K_q

K_zz == <<"z", "z">>

\* A key of no document, longer than every modelled buffer.
K_long == Repeat("k", BufferSizeMin + BufferSizeSpread + 1)

SourceFile(dir, stem, exists, data) ==
    [dir |-> dir, stem |-> stem, exists |-> exists, data |-> data]

\* en.yaml: a nested document; "big" fits every buffer, "q" holds a quote
\* and a backslash.
F_en ==
    SourceFile(<<>>, L_en, TRUE,
        DictNode(<< <<K_hi, StrLeaf(<<"H", "i">>)>>,
                    <<K_msg, DictNode(<<
                        <<K_big, StrLeaf(Repeat("e", BufferSizeMin - 1))>>,
                        <<K_q, StrLeaf(<<"\"", "\\", "n">>)>> >>)>> >>))

\* fr.yaml: "big" is one longer than the smallest buffer, "q" is a number.
F_fr ==
    SourceFile(<<>>, L_fr, TRUE,
        DictNode(<< <<K_msg, DictNode(<<
                        <<K_q, IntLeaf(42)>>,
                        <<K_big, StrLeaf(Repeat("f", BufferSizeMin + 1))>> >>)>>,
                    <<K_hi, StrLeaf(<<"S", "a", "l", "u", "t">>)>> >>))

\* de.yaml: only "hi".
F_de ==
    SourceFile(<<>>, L_de, TRUE,
        DictNode(<< <<K_hi, StrLeaf(<<"H", "a", "l", "l", "o">>)>> >>))

\* es.yaml: the keys "a.b" and "a_b".
F_es ==
    SourceFile(<<>>, L_es, TRUE,
        DictNode(<< <<<<"a">>, DictNode(<< <<<<"b">>, StrLeaf(<<"d", "o", "t">>)>> >>)>>,
                    <<<<"a", "_", "b">>, StrLeaf(<<"u", "n", "d", "e", "r">>)>> >>))

\* nl.yaml: a value of two lines.
F_nl ==
    SourceFile(<<>>, L_nl, TRUE,
        DictNode(<< <<K_hi, StrLeaf(<<"A", "\n", "B">>)>> >>))

\* it.yaml: listed, but not on disk.
F_it == SourceFile(<<>>, L_it, FALSE, DictNode(<<>>))

\* old/en.yaml: a second document of stem "en".
F_old_en ==
    SourceFile(<<"o", "l", "d">>, L_en, TRUE,
        DictNode(<< <<K_hi, StrLeaf(<<"H", "e", "y">>)>> >>))

Files == {F_en, F_fr, F_de, F_es, F_nl, F_it, F_old_en}

DefaultLocales == {L_en, L_fr, L_es, L_nl}

\* CONF_BUFFER_SIZE values of the model, from the schema's minimum up.
BufferSizes == BufferSizeMin..(BufferSizeMin + BufferSizeSpread)

SeqsUpTo(S, n) == UNION {[1..k -> S] : k \in 1..n}

Configs ==
    [sources : SeqsUpTo(Files, MaxSources), default_locale : DefaultLocales,
     use_psram : BOOLEAN, buffer_size : BufferSizes]

\* The configurations the runtime specification starts from: en and fr
\* under either default, and three that fail to compile.
RuntimeConfigs ==
    [sources : {<<F_en, F_fr>>}, default_locale : {L_en},
     use_psram : BOOLEAN, buffer_size : BufferSizes]
    \cup
    [sources : {<<F_fr, F_en>>}, default_locale : {L_fr},
     use_psram : {TRUE}, buffer_size : {BufferSizeMin}]
    \cup
    [sources : {<<F_it>>, <<F_de>>, <<F_en, F_de>>}, default_locale : {L_en},
     use_psram : {FALSE}, buffer_size : {BufferSizeMin}]

\* Arguments the application passes to tr and to set_locale.
TrKeys == {NULL, Ptr(K_hi), Ptr(K_msg_big), Ptr(K_msg_q), Ptr(K_zz), Ptr(K_long)}

SetLocaleArgs == {NULL, Ptr(L_en), Ptr(L_fr), Ptr(L_xx), Ptr(<<>>)}

----------------------------------------------------------------------------
(* to_code, step by step.                                                  *)

NoError == [kind |-> "none", report |-> <<>>]

NoCall ==
    [op |-> "none", key |-> NULL, loc |-> NULL, ret |-> NULL, buf_before |-> 0,
     loc_before |-> NULL, attempts |-> <<>>, again |-> FALSE]

InitOf(cfgs) ==
    /\ config \in cfgs
    /\ pc = "load"
    /\ src_i = 1
    /\ locales_map = [order |-> <<>>, kv |-> EmptyDict]
    /\ all_keys_set = {}
    /\ all_keys = <<>>
    /\ gen = [hdr |-> NULL, cpp |-> NULL]
    /\ files = [hdr |-> NULL, cpp |-> NULL]
    /\ error = NoError
    /\ current_loc = NULL
    /\ translation_buffer = 0
    /\ heap = <<>>
    /\ last = NoCall
    /\ lastSetLocale = <<>>

Init == InitOf(Configs)

InitRuntime == InitOf(RuntimeConfigs)

\* raise cv.Invalid(...)
Raise(kind, report) ==
    /\ error' = [kind |-> kind, report |-> report]
    /\ pc' = "failed"

\* locales_map[loc] = flat: a new key goes last, a known key keeps its place.
SetLocaleEntry(lmap, loc, flat) ==
    [order |-> IF loc \in Range(lmap.order) THEN lmap.order
               ELSE Append(lmap.order, loc),
     kv    |-> Put(lmap.kv, loc, flat)]

\* The loading loop finds a source that does not exist.
SourceNotFound ==
    /\ pc = "load"
    /\ src_i <= Len(config.sources)
    /\ ~config.sources[src_i].exists
    /\ Raise("not_found", <<>>)
    /\ UNCHANGED <<config, src_i, locales_map, all_keys_set, all_keys, gen, files>>
    /\ UNCHANGED runtimeVars

\* One round of the loading loop.
LoadSource ==
    /\ pc = "load"
    /\ src_i <= Len(config.sources)
    /\ config.sources[src_i].exists
    /\ LET src == config.sources[src_i]
           flat == flatten_dict(<<>>, src.data, EmptyDict)
       IN  /\ locales_map' = SetLocaleEntry(locales_map, src.stem, flat)
           /\ all_keys_set' = all_keys_set \cup DOMAIN flat
    /\ src_i' = src_i + 1
    /\ UNCHANGED <<config, pc, all_keys, gen, files, error>>
    /\ UNCHANGED runtimeVars

\* all_keys = sorted(all_keys_set)
SortKeys ==
    /\ pc = "load"
    /\ src_i > Len(config.sources)
    /\ all_keys' = sorted(all_keys_set)
    /\ pc' = "check_default"
    /\ UNCHANGED <<config, src_i, locales_map, all_keys_set, gen, files, error>>
    /\ UNCHANGED runtimeVars

\* The default locale check letting every identifier pass.
DefaultLocaleKnown_Always(lmap, default_locale) == TRUE

\* if default_locale not in locales_map
DefaultLocaleKnown(lmap, default_locale) == default_locale \in DOMAIN lmap.kv

DefaultLocaleMissing ==
    /\ pc = "check_default"
    /\ ~DefaultLocaleKnown(locales_map, config.default_locale)
    /\ Raise("default_locale", <<>>)
    /\ UNCHANGED <<config, src_i, locales_map, all_keys_set, all_keys, gen, files>>
    /\ UNCHANGED runtimeVars

DefaultLocaleFound ==
    /\ pc = "check_default"
    /\ DefaultLocaleKnown(locales_map, config.default_locale)
    /\ pc' = "gen_hdr"
    /\ UNCHANGED <<config, src_i, locales_map, all_keys_set, all_keys, gen, files, error>>
    /\ UNCHANGED runtimeVars

\* hdr = _gen_translations_h(...)
GenerateHdr ==
    /\ pc = "gen_hdr"
    /\ gen' = [gen EXCEPT !.hdr = <<gen_translations_h(all_keys, config.use_psram,
                                                       config.buffer_size)>>]
    /\ pc' = "gen_cpp"
    /\ UNCHANGED <<config, src_i, locales_map, all_keys_set, all_keys, files, error>>
    /\ UNCHANGED runtimeVars

\* cpp = _gen_translations_cpp(...)
GenerateCpp ==
    /\ pc = "gen_cpp"
    /\ LET r == gen_translations_cpp(locales_map, config.default_locale, all_keys,
                                     config.use_psram, config.buffer_size)
       IN  IF r.raised
           THEN /\ Raise("missing", r.report)
                /\ UNCHANGED gen
           ELSE /\ gen' = [gen EXCEPT !.cpp = r.cpp]
                /\ pc' = "write_hdr"
                /\ UNCHANGED error
    /\ UNCHANGED <<config, src_i, locales_map, all_keys_set, all_keys, files>>
    /\ UNCHANGED runtimeVars

\* write_file_if_changed(hdr_path, hdr)
WriteHdr ==
    /\ pc = "write_hdr"
    /\ files' = [files EXCEPT !.hdr = gen.hdr]
    /\ pc' = "write_cpp"
    /\ UNCHANGED <<config, src_i, locales_map, all_keys_set, all_keys, gen, error>>
    /\ UNCHANGED runtimeVars

\* write_file_if_changed(cpp_path, cpp)
WriteCpp ==
    /\ pc = "write_cpp"
    /\ files' = [files EXCEPT !.cpp = gen.cpp]
    /\ pc' = "done"
    /\ UNCHANGED <<config, src_i, locales_map, all_keys_set, all_keys, gen, error>>
    /\ UNCHANGED runtimeVars

NextCompile ==
    \/ SourceNotFound
    \/ LoadSource
    \/ SortKeys
    \/ DefaultLocaleMissing
    \/ DefaultLocaleFound
    \/ GenerateHdr
    \/ GenerateCpp
    \/ WriteHdr
    \/ WriteCpp

Spec == Init /\ [][NextCompile]_vars

----------------------------------------------------------------------------
(* The firmware built from the two written files, and the calls the        *)
(* application makes into it, one at a time.                               *)

Cpp == Deref(files.cpp)

I18N_BUFFER_SIZE == Deref(files.hdr).I18N_BUFFER_SIZE

\* The generated unit is compiled and started: the statics take their
\* initial values.
Boot ==
    /\ pc = "done"
    /\ Compiles(Cpp) = TRUE
    /\ pc' = "running"
    /\ current_loc' = Ptr(TRANSLATIONS_DEFAULT_LOCALE(Cpp))
    /\ translation_buffer' = 0
    /\ UNCHANGED <<config, src_i, locales_map, all_keys_set, all_keys, gen, files,
                   error, heap, last, lastSetLocale>>

Called(op, key, loc, ret, attempts) ==
    [op |-> op, key |-> key, loc |-> loc, ret |-> ret,
     buf_before |-> translation_buffer, loc_before |-> current_loc,
     attempts |-> attempts,
     again |-> (last.op = op)]

\* const char* tr(const char* key)
tr ==
    /\ pc = "running"
    /\ \E key \in TrKeys, ok \in AllocOutcomes(translation_buffer, heap, Cpp.use_psram) :
          LET r == IF translation_buffer = 0
                   THEN i18n_init_buffer(translation_buffer, heap,
                                         Cpp.use_psram, ok[1], ok[2])
                   ELSE [tb |-> translation_buffer, heap |-> heap, attempts |-> <<>>]
          IN  IF r.tb = 0
              THEN /\ translation_buffer' = 0
                   /\ heap' = r.heap
                   /\ last' = Called("tr", key, NULL,
                                     IF key # NULL THEN key ELSE Ptr(<<>>), r.attempts)
              ELSE LET text == i18n_get_buf_internal(Cpp, current_loc, key,
                                                     I18N_BUFFER_SIZE)
                   IN  /\ translation_buffer' = r.tb
                       /\ heap' = [r.heap EXCEPT ![r.tb].data = Ptr(text)]
                       /\ last' = Called("tr", key, NULL, Ptr(text), r.attempts)
    /\ UNCHANGED <<current_loc, lastSetLocale>>
    /\ UNCHANGED compileVars

\* void set_locale(const char* loc)
set_locale ==
    /\ pc = "running"
    /\ \E loc \in SetLocaleArgs :
          /\ current_loc' = i18n_set_locale_internal(current_loc, loc)
          /\ lastSetLocale' = <<loc>>
          /\ last' = Called("set_locale", NULL, loc, NULL, <<>>)
    /\ UNCHANGED <<translation_buffer, heap>>
    /\ UNCHANGED compileVars

\* const char* get_locale()
get_locale ==
    /\ pc = "running"
    /\ last' = Called("get_locale", NULL, NULL, current_loc, <<>>)
    /\ UNCHANGED <<current_loc, translation_buffer, heap, lastSetLocale>>
    /\ UNCHANGED compileVars

\* The application calls i18n_init_buffer().
init_buffer ==
    /\ pc = "running"
    /\ \E ok \in AllocOutcomes(translation_buffer, heap, Cpp.use_psram) :
          LET r == i18n_init_buffer(translation_buffer, heap, Cpp.use_psram,
                                    ok[1], ok[2])
          IN  /\ translation_buffer' = r.tb
              /\ heap' = r.heap
              /\ last' = Called("i18n_init_buffer", NULL, NULL, NULL, r.attempts)
    /\ UNCHANGED <<current_loc, lastSetLocale>>
    /\ UNCHANGED compileVars

\* The application calls i18n_cleanup_buffer().
cleanup_buffer ==
    /\ pc = "running"
    /\ LET r == i18n_cleanup_buffer(translation_buffer, heap)
       IN  /\ translation_buffer' = r.tb
           /\ heap' = r.heap
    /\ last' = Called("i18n_cleanup_buffer", NULL, NULL, NULL, <<>>)
    /\ UNCHANGED <<current_loc, lastSetLocale>>
    /\ UNCHANGED compileVars

NextRuntime ==
    \/ Boot
    \/ tr
    \/ set_locale
    \/ get_locale
    \/ init_buffer
    \/ cleanup_buffer

Next == NextCompile \/ NextRuntime

SpecRuntime == InitRuntime /\ [][Next]_vars

----------------------------------------------------------------------------
(* What the claims speak of, read off the configuration and the results.   *)

\* to_code has returned or raised.
Finished == pc \in {"failed", "done", "running"}

Failed == pc = "failed"

\* The keys locale loc lacks, of the keys collected so far.
Lacks(loc) == all_keys_set \ DOMAIN locales_map.kv[loc]

Offending == {loc \in DOMAIN locales_map.kv : Lacks(loc) # {}}

\* The documents the configuration lists are all on disk.
AllSourcesExist == \A i \in 1..Len(config.sources) : config.sources[i].exists

\* The default locale is the stem of a listed document.
DefaultIsListed ==
    \E i \in 1..Len(config.sources) : config.sources[i].stem = config.default_locale

\* The document that stands for locale loc: the last one listed with that stem.
DocOf(loc) ==
    LET hits == {i \in 1..Len(config.sources) : config.sources[i].stem = loc}
    IN  config.sources[CHOOSE i \in hits : \A j \in hits : j <= i].data

ListedLocales == {config.sources[i].stem : i \in 1..Len(config.sources)}

\* The union of the keys of every listed document.
ListedKeys ==
    UNION {DOMAIN flatten_dict(<<>>, config.sources[i].data, EmptyDict) :
              i \in 1..Len(config.sources)}

\* Every locale's document holds every key of the union.
ListedComplete ==
    \A loc \in ListedLocales :
        ListedKeys \subseteq DOMAIN flatten_dict(<<>>, DocOf(loc), EmptyDict)

RECURSIVE SplitNames(_, _)
\* The names of a ", "-separated list; cur is the name being read.
SplitNames(text, cur) ==
    IF text = <<>> THEN {cur}
    ELSE IF Len(text) >= 2 /\ text[1] = "," /\ text[2] = " "
         THEN {cur} \cup SplitNames(SubSeq(text, 3, Len(text)), <<>>)
    ELSE SplitNames(Tail(text), Append(cur, text[1]))

\* A report line "<loc>: <names>" read back: the locale and the keys named.
LineLocale(line) ==
    SubSeq(line, 1, (CHOOSE i \in 1..Len(line) : line[i] = ":" /\
                        \A j \in 1..(i - 1) : line[j] # ":") - 1)

LineKeys(line) ==
    SplitNames(SubSeq(line, Len(LineLocale(line)) + 3, Len(line)), <<>>)

\* The report names exactly the offending locales, each once, each with
\* exactly the keys it lacks.
ReportNamesAll ==
    /\ \A loc \in Offending :
          \E i \in 1..Len(error.report) :
              /\ LineLocale(error.report[i]) = loc
              /\ LineKeys(error.report[i]) = Lacks(loc)
    /\ Len(error.report) = Cardinality(Offending)

\* C2 as stated: whenever a locale lacks a key of the key universe,
\* compilation fails with the report that names every offending locale and
\* every key it lacks; with no locale lacking a key that check does not fail.
C2_AsStated ==
    Finished =>
        /\ Offending # {} => Failed /\ error.kind = "missing" /\ ReportNamesAll
        /\ Offending = {} => error.kind # "missing"

\* C2, amended: when every listed source exists and the default locale is
\* among the compiled locales, a locale lacking a key of the key universe
\* makes compilation fail with one report that names every offending locale
\* and every key it lacks; when no locale lacks a key the completeness check
\* does not fail.
C2_Completeness ==
    Finished =>
        /\ (AllSourcesExist /\ DefaultIsListed /\ Offending # {})
              => Failed /\ error.kind = "missing" /\ ReportNamesAll
        /\ Offending = {} => error.kind # "missing"

\* C2's case: the report of a failure names two offending locales, one of
\* them with two missing keys.
C2_Witness ==
    /\ Failed
    /\ error.kind = "missing"
    /\ Cardinality(Offending) = 2
    /\ \E loc \in Offending : Cardinality(Lacks(loc)) >= 2


\* translations.cpp has been written.
Emitted == files.cpp # NULL

\* In the emitted unit symbol sym denotes text v: it is defined once, by a
\* well-formed literal of that value.
EntryBinds(cpp, sym, v) ==
    /\ Cardinality(DefsOf(cpp, sym)) = 1
    /\ \A d \in DefsOf(cpp, sym) :
          /\ LiteralOk(StringDefs(cpp)[d].lit)
          /\ LiteralValue(StringDefs(cpp)[d].lit) = v

\* all_keys is the key universe: every listed key once, in ascending order.
UniverseSorted ==
    /\ Range(all_keys) = ListedKeys
    /\ \A i \in 1..(Len(all_keys) - 1) : StrLess(all_keys[i], all_keys[i + 1])

\* Every locale's table holds, at each index, that locale's value for the
\* key of that index.
TablesAligned ==
    /\ {Cpp.blocks[b].loc : b \in 1..Len(Cpp.blocks)} = DOMAIN locales_map.kv
    /\ \A b \in 1..Len(Cpp.blocks) :
          /\ Len(Cpp.blocks[b].table_elems) = Len(all_keys)
          /\ \A i \in 1..Len(all_keys) :
                EntryBinds(Cpp, Cpp.blocks[b].table_elems[i],
                           locales_map.kv[Cpp.blocks[b].loc][all_keys[i]])

\* Two distinct keys of the universe share their Symbol Namer token.
SymbolCollision ==
    \E i, j \in 1..Len(all_keys) :
        i # j /\ sym_from_key(all_keys[i]) = sym_from_key(all_keys[j])

\* C8 as stated: in every emitted catalog each locale's table has as many
\* entries as the sorted, duplicate-free key universe, and the entry at i is
\* that locale's value for the key at position i.
C8_AsStated == Emitted => UniverseSorted /\ TablesAligned

\* C9: if a listed source is missing, the default locale is not compiled or
\* a locale is incomplete, to_code fails with neither artifact written; the
\* two artifacts are written only when all checks have passed.
C9_NoPartialSuccess ==
    /\ (files.hdr # NULL \/ files.cpp # NULL)
          => AllSourcesExist /\ DefaultIsListed /\ ListedComplete
    /\ Failed => files.hdr = NULL /\ files.cpp = NULL
    /\ (Finished /\ ~(AllSourcesExist /\ DefaultIsListed /\ ListedComplete)) => Failed

\* C9's case: the completeness check fails after the declarations were
\* generated, and nothing is on disk.
C9_Witness ==
    /\ Failed
    /\ error.kind = "missing"
    /\ gen.hdr # NULL
    /\ files = [hdr |-> NULL, cpp |-> NULL]

\* C10 as stated: when two distinct keys of the universe map to the same
\* symbol, the emitted catalog still binds each key's table slot to that
\* key's own value in every locale.
C10_AsStated == (Emitted /\ SymbolCollision) => TablesAligned


----------------------------------------------------------------------------
(* The runtime claims.                                                     *)

Running == pc = "running"

CompiledLocales == DOMAIN locales_map.kv

\* Locale loc's value for key k, as the source documents give it.
SourceValue(loc, k) == locales_map.kv[loc][k]

\* The last call was tr of a key of the key universe.
TrOfKnownKey == Running /\ last.op = "tr" /\ last.key # NULL
                /\ Deref(last.key) \in all_keys_set

\* The last call was tr of a key absent from the key universe.
TrOfUnknownKey == Running /\ last.op = "tr" /\ last.key # NULL
                  /\ Deref(last.key) \notin all_keys_set

\* The last tr wrote its answer into the buffer: acquisition had succeeded.
ThroughBuffer == translation_buffer # 0

\* The locale whose table serves lookups under the active locale.
ServingLocale ==
    IF Deref(current_loc) \in CompiledLocales THEN Deref(current_loc)
    ELSE config.default_locale

\* C1: after set_locale(L) for a compiled locale L, every tr(k) of a key of
\* the universe returns L's value for k, whatever tr, get_locale,
\* i18n_init_buffer and i18n_cleanup_buffer calls came in between, until
\* the next set_locale call (the buffer acquired, the value fitting it).
C1_LocaleSwitchLaw ==
    \A L \in CompiledLocales :
        (/\ TrOfKnownKey
         /\ lastSetLocale = <<Ptr(L)>>
         /\ ThroughBuffer
         /\ Len(SourceValue(L, Deref(last.key))) <= config.buffer_size - 1)
        => last.ret = Ptr(SourceValue(L, Deref(last.key)))

\* C1's case: set_locale("fr") went before, the buffer was released and
\* acquired again since the start, and tr("msg.q") answers fr's "42".
C1_Witness ==
    /\ TrOfKnownKey
    /\ lastSetLocale = <<Ptr(L_fr)>>
    /\ config.default_locale = L_en
    /\ Len(heap) >= 2
    /\ last.again
    /\ last.key = Ptr(K_msg_q)
    /\ last.ret = Ptr(<<"4", "2">>)

\* C3 as stated: tr of a key absent from the universe returns that key
\* exactly, whatever its length, the active locale and the buffer state.
C3_AsStated == TrOfUnknownKey => last.ret = last.key

\* C3, amended: tr of a key absent from the universe returns the key
\* exactly when the key has at most n-1 characters or no buffer could be
\* acquired; with a buffer, a longer key comes back cut to its first n-1
\* characters.  Under any active locale.
C3_FallbackLaw ==
    TrOfUnknownKey =>
        /\ ThroughBuffer => last.ret = Ptr(Take(Deref(last.key), config.buffer_size - 1))
        /\ ~ThroughBuffer => last.ret = last.key
        /\ Len(Deref(last.key)) <= config.buffer_size - 1 => last.ret = last.key

\* C3's case: a key longer than the buffer was cut, under a locale other
\* than the default.
C3_Witness ==
    /\ TrOfUnknownKey
    /\ ThroughBuffer
    /\ current_loc # Ptr(config.default_locale)
    /\ Len(Deref(last.ret)) = config.buffer_size - 1
    /\ Len(Deref(last.key)) > config.buffer_size - 1

AllAttemptsFailed == \A i \in 1..Len(last.attempts) : ~last.attempts[i].ok

\* The regions i18n_init_buffer asks when every request fails.
RegionsToTry ==
    IF config.use_psram THEN <<R_PREFERRED, R_MALLOC>> ELSE <<R_PREFERRED>>

\* The text tr owes for key k once a buffer is there.
Translation(k) ==
    IF k \in all_keys_set
    THEN Take(SourceValue(ServingLocale, k), config.buffer_size - 1)
    ELSE Take(k, config.buffer_size - 1)

\* C5: tr(key) called with the buffer unallocated asks for one; when every
\* region asked fails it returns the key verbatim and the buffer stays
\* unallocated, so that the next tr asks again, and a tr whose request
\* succeeds returns the real translation.
C5_AllocationFailure ==
    (Running /\ last.op = "tr" /\ last.key # NULL /\ last.buf_before = 0) =>
        /\ last.attempts # <<>>
        /\ AllAttemptsFailed =>
              /\ last.ret = last.key
              /\ translation_buffer = 0
              /\ [i \in 1..Len(last.attempts) |-> last.attempts[i].region] = RegionsToTry
        /\ ~AllAttemptsFailed =>
              /\ translation_buffer # 0
              /\ last.ret = Ptr(Translation(Deref(last.key)))

\* C5's case: a tr right after a tr that could not get a buffer asked again,
\* got one in the fallback region, and answered the real translation.
C5_Witness ==
    /\ Running
    /\ last.op = "tr"
    /\ last.again
    /\ last.buf_before = 0
    /\ Len(last.attempts) = 2
    /\ last.attempts[2].ok
    /\ last.key = Ptr(K_hi)
    /\ last.ret = Ptr(<<"H", "i">>)

\* Every block was freed at most once.
NoDoubleFree == \A b \in 1..Len(heap) : heap[b].frees <= 1

\* C6 as stated: acquire() followed by acquire() leaves the buffer as the
\* first acquire() left it; release() followed by release() leaves it as
\* the first release() left it, with no second free.
C6_AsStated ==
    /\ (Running /\ last.op = "i18n_init_buffer" /\ last.again)
          => translation_buffer = last.buf_before
    /\ (Running /\ last.op = "i18n_cleanup_buffer" /\ last.again)
          => translation_buffer = last.buf_before /\ NoDoubleFree

\* C6, amended: acquire() after an acquire() that left the buffer allocated
\* changes nothing and asks for no memory; acquire() after an acquire() that
\* failed asks again, and may succeed; release() after release() changes
\* nothing and frees nothing a second time.
C6_IdempotentLifecycle ==
    /\ (Running /\ last.op = "i18n_init_buffer" /\ last.again /\ last.buf_before # 0)
          => translation_buffer = last.buf_before /\ last.attempts = <<>>
    /\ (Running /\ last.op = "i18n_init_buffer" /\ last.again /\ last.buf_before = 0)
          => last.attempts # <<>>
             /\ (AllAttemptsFailed <=> translation_buffer = 0)
    /\ (Running /\ last.op = "i18n_cleanup_buffer" /\ last.again)
          => translation_buffer = 0 /\ last.buf_before = 0 /\ NoDoubleFree

\* C6's case: a second release in a row, after a buffer had been acquired
\* and freed.
C6_Witness ==
    /\ Running
    /\ last.op = "i18n_cleanup_buffer"
    /\ last.again
    /\ \E b \in 1..Len(heap) : heap[b].frees = 1

\* C7 as stated: while the active locale is no compiled locale, tr(k) of a
\* key of the universe returns the default locale's value for k; and
\* set_locale(null) leaves the active locale as it was.
C7_AsStated ==
    /\ (TrOfKnownKey /\ Deref(current_loc) \notin CompiledLocales)
          => last.ret = Ptr(SourceValue(config.default_locale, Deref(last.key)))
    /\ (Running /\ last.op = "set_locale" /\ last.loc = NULL)
          => current_loc = last.loc_before

\* C7, amended: while the active locale is no compiled locale (unknown or
\* empty), tr(k) of a key of the universe returns the default locale's
\* value for k, cut to its first n-1 characters when longer, provided a
\* buffer is acquired, and the key itself otherwise; it always returns.
\* set_locale(null) leaves the active locale as it was.
C7_SoftLocaleFallback ==
    /\ (TrOfKnownKey /\ Deref(current_loc) \notin CompiledLocales) =>
          /\ ThroughBuffer =>
                last.ret = Ptr(Take(SourceValue(config.default_locale, Deref(last.key)),
                                    config.buffer_size - 1))
          /\ ~ThroughBuffer => last.ret = last.key
    /\ (Running /\ last.op = "set_locale" /\ last.loc = NULL)
          => current_loc = last.loc_before

\* C7's case: under the default locale "fr" and the unknown active locale
\* "xx", tr("msg.q") answers fr's "42"; the empty locale does the same.
C7_Witness ==
    /\ TrOfKnownKey
    /\ config.default_locale = L_fr
    /\ current_loc = Ptr(L_xx)
    /\ last.key = Ptr(K_msg_q)
    /\ last.ret = Ptr(<<"4", "2">>)

----------------------------------------------------------------------------
(* The single buffer.                                                      *)

\* The blocks handed out by the allocator and not given back.
LiveBlocks == {b \in 1..Len(heap) : heap[b].frees = 0}

\* Some buffer was released by i18n_cleanup_buffer: only it calls I18N_FREE.
SomeBufferReleased == \E b \in 1..Len(heap) : heap[b].frees >= 1

\* The last call was a tr that found no buffer after one had been released.
TrAfterRelease ==
    Running /\ last.op = "tr" /\ last.buf_before = 0 /\ SomeBufferReleased

\* Every block ever allocated is the current buffer, never freed, or was
\* freed exactly once and is no longer the current buffer.
NoLeakNoDoubleFree ==
    \A b \in 1..Len(heap) :
        \/ b = translation_buffer /\ heap[b].frees = 0
        \/ b # translation_buffer /\ heap[b].frees = 1

\* At most one block is live, and it is the one translation_buffer holds.
SingleBuffer ==
    /\ translation_buffer \in 0..Len(heap)
    /\ Cardinality(LiveBlocks) <= 1
    /\ LiveBlocks = (IF translation_buffer = 0 THEN {} ELSE {translation_buffer})

\* C11 as stated: in every state reachable by tr, i18n_init_buffer,
\* i18n_cleanup_buffer and set_locale calls, with each allocation request
\* free to succeed or fail, at most one translation buffer is live, every
\* buffer ever allocated is the current one or was freed exactly once, and
\* the tr that follows a release has a buffer again.
C11_AsStated ==
    /\ SingleBuffer
    /\ NoLeakNoDoubleFree
    /\ TrAfterRelease => translation_buffer # 0

\* C11, amended: at most one translation buffer is live, every buffer ever
\* allocated is the current one or was freed exactly once, and the tr that
\* follows a release asks for a buffer again; it has one, a fresh block,
\* exactly when one of its requests succeeds.
C11_SingleBuffer ==
    /\ SingleBuffer
    /\ NoLeakNoDoubleFree
    /\ TrAfterRelease =>
          /\ last.attempts # <<>>
          /\ translation_buffer # 0 <=> ~AllAttemptsFailed
          /\ translation_buffer # 0 =>
                /\ translation_buffer = Len(heap)
                /\ heap[translation_buffer].data = last.ret

\* C11's case: a buffer was acquired and released, and the tr that followed
\* acquired a second block, which is the only live one.
C11_Witness ==
    /\ TrAfterRelease
    /\ Len(heap) = 2
    /\ heap[1].frees = 1
    /\ translation_buffer = 2
    /\ LiveBlocks = {2}
    /\ last.ret = Ptr(<<"H", "i">>)

====
